---------------------------- MODULE Spec2Model ----------------------------
(***************************************************************************)
(* Crawl orchestration of the LinkedIn Ads Library scraper (main.ts):      *)
(* one request queue, the LIST and AD branches of requestHandler, the      *)
(* failedRequestHandler and the rate-limit governor.                       *)
(*                                                                         *)
(* The crawler library is the environment.  It is modelled by its          *)
(* documented contract: the request queue is FIFO and deduplicates by      *)
(* uniqueKey; a request whose attempt fails is reclaimed to the end of     *)
(* the queue until it has been retried maxRequestRetries times, then       *)
(* failedRequestHandler runs once and the request is finished; up to       *)
(* maxConcurrency requests are in flight at once.  JavaScript runs one     *)
(* callback at a time, so a handler is atomic between two awaits: every    *)
(* action below is one such stretch of code.  The requests in flight are   *)
(* a set of tasks (their unique keys differ).                              *)
(*                                                                         *)
(* Three specifications share the actions and differ in the environment:   *)
(*   Spec      any page content, at most MaxFailures failed attempts;      *)
(*   FailSpec  a fixed two-page site, enough failed attempts for requests  *)
(*             to use up their retries and reach failedRequestHandler;     *)
(*   LongSpec  a fixed site long enough for the periodic saves to happen.  *)
(***************************************************************************)
EXTENDS Integers, Sequences, FiniteSets, TLC

VARIABLES input, phase, queue, keys, inflight,
          urlsFound, pagesProcessed, totalAdsAvailable, isFirstPage,
          detailsCollected, consecutiveRateLimitErrors, lastBackoffTime,
          dataset, metadata, waits, failures, scrape

vars == <<input, phase, queue, keys, inflight,
          urlsFound, pagesProcessed, totalAdsAvailable, isFirstPage,
          detailsCollected, consecutiveRateLimitErrors, lastBackoffTime,
          dataset, metadata, waits, failures, scrape>>

---------------------------------------------------------------------------
(* Bounds of the model *)

MaxAdId == 2
MaxAdsPerPage == 2
MaxUrls == 2
MaxConcurrency == 2
MaxFailures == 1
MaxEvidence == 2
MaxParams == 3
MaxTextLen == 5
MaxBackoffs == 6

(* Program constants *)

MIN_BACKOFF_TIME == 10000
MAX_BACKOFF_TIME == 60000
BACKOFF_FACTOR_NUM == 3
BACKOFF_FACTOR_DEN == 2
SAVE_METADATA_EVERY_N_PAGES == 20
DETAILS_PER_PAGE_FACTOR == 5
maxRequestRetries == 5
DefaultMaxUrlsCount == 500

---------------------------------------------------------------------------
(* Values *)

Undefined == "undefined"
NoNumber == -1
NoLink == 0

AdIds == 1..MaxAdId
AdEntries == AdIds \cup {NoLink}

Min(a, b) == IF a <= b THEN a ELSE b

SeqsUpTo(S, n) == UNION {[1..k -> S] : k \in 0..n}

(* A page of search results: the entries of $('.search-result-item'), each *)
(* the ad id its detail link ends in, or NoLink when the link or the id    *)
(* cannot be extracted.                                                    *)
AdLists == SeqsUpTo(AdEntries, MaxAdsPerPage)

(* Pagination tokens as strings of characters. *)
Tokens == {<<"0">>, <<"0", "#", "x">>, <<"a">>, <<"a", "#", "x">>}

(* The #paginationMetadata element of a page: absent ("none"), present     *)
(* without a parsable comment ("bad"), or parsed ("ok") with isLastPage    *)
(* and paginationToken (<<>> when the token is missing or empty).          *)
Metas ==
    {[kind |-> k, isLastPage |-> FALSE, token |-> <<>>] : k \in {"none", "bad"}}
    \cup [kind : {"ok"}, isLastPage : BOOLEAN, token : Tokens \cup {<<>>}]

(* What the first page says about the total: "element" when the count      *)
(* heading is found and matches, "heading" when only the fallback h1 scan  *)
(* matches, "none" otherwise.                                              *)
CountNone == [kind |-> "none", n |-> 0]
CountElement == [kind |-> "element", n |-> 7]
CountHeading == [kind |-> "heading", n |-> 7]
Counts == {CountNone, CountElement}

(* Outcomes of a failed navigation: the HTTP status, 0 for a network error *)
NavFailStatuses == {429, 403, 404, 500, 0}

AllInputs ==
    [accountOwner : {Undefined, "acme"},
     keyword : {Undefined, "seo"},
     maxUrlsCount : {NoNumber} \cup 1..MaxUrls,
     unlimitedMode : {Undefined, "true", "false"},
     scrapeAdDetails : {"true", "false"},
     maxCrawlerConcurrency : {MaxConcurrency},
     localMode : {"true", "false"}]

(* The inputs of Spec: for one search in local mode, every limit with and  *)
(* without details and one run in unlimited mode; for a run that only      *)
(* lists, every search and both modes.                                     *)
Inputs ==
    {i \in AllInputs :
        \/ /\ i.accountOwner = "acme" /\ i.keyword = Undefined /\ i.localMode = "true"
           /\ \/ i.unlimitedMode = "false" /\ i.maxUrlsCount # NoNumber
              \/ /\ i.unlimitedMode = "true" /\ i.maxUrlsCount = 1
                 /\ i.scrapeAdDetails = "true"
        \/ /\ i.unlimitedMode = "false" /\ i.maxUrlsCount = NoNumber
           /\ i.scrapeAdDetails = "false"}

---------------------------------------------------------------------------
(* Input destructuring with defaults *)

maxUrlsCount ==
    IF input.maxUrlsCount = NoNumber THEN DefaultMaxUrlsCount ELSE input.maxUrlsCount

unlimitedMode ==
    IF input.unlimitedMode = Undefined THEN TRUE ELSE input.unlimitedMode = "true"

(* A destructuring that ignores the flag. *)
scrapeAdDetailsAlways == TRUE

scrapeAdDetails == input.scrapeAdDetails = "true"

maxCrawlerConcurrency == input.maxCrawlerConcurrency

(* A validation that insists on accountOwner. *)
InputValidOwnerOnly == input.accountOwner # Undefined

InputValid == ~(input.accountOwner = Undefined /\ input.keyword = Undefined)

---------------------------------------------------------------------------
(* Requests *)

NoToken == <<>>

ListRequest(token, initial) ==
    [label |-> "LIST", adId |-> 0, token |-> token, initial |-> initial, retryCount |-> 0]

AdRequest(adId) ==
    [label |-> "AD", adId |-> adId, token |-> NoToken, initial |-> FALSE, retryCount |-> 0]

InitialRequest == ListRequest(NoToken, TRUE)

UniqueKey(r) == [label |-> r.label, adId |-> r.adId, token |-> r.token, initial |-> r.initial]

NoRequest == [label |-> "NONE", adId |-> 0, token |-> NoToken, initial |-> FALSE, retryCount |-> 0]

NoMeta == [kind |-> "none", isLastPage |-> FALSE, token |-> <<>>]

(* What a handling remembers of the pagination metadata it read. *)
NoCursor == [parsed |-> FALSE, isLastPage |-> FALSE, token |-> NoToken, known |-> FALSE]

(* A task: the request in flight, the await its handler is suspended on    *)
(* (pc), the locals that live across awaits (status, reqs, next) and a     *)
(* record of what this handling has done so far (n: entries of the page,   *)
(* urls0: urlsFound before the loop, counted: growth of urlsFound over the *)
(* handling, fresh: every entry has a new, distinct id, capFree: the limit  *)
(* is off or stays above urlsFound when every entry is counted, dAdded /   *)
(* lAdded: AD / LIST requests the queue accepted, cursor: the metadata     *)
(* read, its token cleaned, and whether the queue knew the page of that    *)
(* token already, limited: ended by the limit check).                      *)
Idle ==
    [pc |-> "idle", req |-> NoRequest, status |-> 0, reqs |-> <<>>, next |-> NoToken,
     n |-> 0, urls0 |-> 0, counted |-> 0, fresh |-> FALSE, capFree |-> FALSE,
     dAdded |-> 0, lAdded |-> 0, cursor |-> NoCursor, limited |-> FALSE]

(* requestQueue.addRequest / crawler.addRequests: append in order, drop a  *)
(* request whose uniqueKey the queue has already seen.                     *)
RECURSIVE AddRequests(_, _, _)
AddRequests(q, k, rs) ==
    IF rs = <<>> THEN [queue |-> q, keys |-> k, added |-> 0]
    ELSE LET r == Head(rs)
             rest == IF UniqueKey(r) \in k
                     THEN AddRequests(q, k, Tail(rs))
                     ELSE AddRequests(Append(q, r), k \cup {UniqueKey(r)}, Tail(rs))
         IN  IF UniqueKey(r) \in k THEN rest
             ELSE [rest EXCEPT !.added = @ + 1]


---------------------------------------------------------------------------
(* Pure helpers of the handlers *)

(* rawToken.split('#')[0] for a token that includes '#', the token itself  *)
(* otherwise.                                                              *)
CleanToken(t) ==
    IF \E i \in 1..Len(t) : t[i] = "#"
    THEN LET first == CHOOSE i \in 1..Len(t) :
                          t[i] = "#" /\ \A j \in 1..(i - 1) : t[j] # "#"
         IN  SubSeq(t, 1, first - 1)
    ELSE t

(* Math.min(lastBackoffTime * BACKOFF_FACTOR, MAX_BACKOFF_TIME), in ms.    *)
(* min(1.5 x, M) = min(3 x, 2 M) / 2; the division is exact for every      *)
(* delay the governor can hold (10000, 15000, 22500, 33750, 50625, 60000). *)
BackoffStep(last) ==
    Min(last * BACKOFF_FACTOR_NUM, MAX_BACKOFF_TIME * BACKOFF_FACTOR_DEN)
        \div BACKOFF_FACTOR_DEN

(* The limit test of the LIST branch. *)
LimitReachedOffByOne(found) == ~unlimitedMode /\ found > maxUrlsCount

LimitReached(found) == ~unlimitedMode /\ found >= maxUrlsCount

(* The end-of-pagination sentinel: cleanedToken === "0". *)
IsEndTokenNever(cleanedToken) == FALSE

IsEndToken(cleanedToken) == cleanedToken = <<"0">>

(* The for loop over the ads of a page: stop at the limit, skip an entry   *)
(* without link or id, count the ad, and create its AD request when        *)
(* details are scraped.                                                    *)
RECURSIVE ExtractAdsSkipLast(_, _, _, _)
ExtractAdsSkipLast(ads, i, found, reqs) ==
    IF i >= Len(ads) THEN [urlsFound |-> found, reqs |-> reqs]
    ELSE IF LimitReached(found) THEN [urlsFound |-> found, reqs |-> reqs]
    ELSE IF ads[i] = NoLink THEN ExtractAdsSkipLast(ads, i + 1, found, reqs)
    ELSE ExtractAdsSkipLast(ads, i + 1, found + 1,
                    IF scrapeAdDetails THEN Append(reqs, AdRequest(ads[i])) ELSE reqs)

RECURSIVE ExtractAds(_, _, _, _)
ExtractAds(ads, i, found, reqs) ==
    IF i > Len(ads) THEN [urlsFound |-> found, reqs |-> reqs]
    ELSE IF LimitReached(found) THEN [urlsFound |-> found, reqs |-> reqs]
    ELSE IF ads[i] = NoLink THEN ExtractAds(ads, i + 1, found, reqs)
    ELSE ExtractAds(ads, i + 1, found + 1,
                    IF scrapeAdDetails THEN Append(reqs, AdRequest(ads[i])) ELSE reqs)

---------------------------------------------------------------------------
(* The state a handler works on: the shared variables and its own slot *)

Cur(t) ==
    [queue |-> queue, keys |-> keys, slot |-> t, failures |-> failures,
     urlsFound |-> urlsFound, pagesProcessed |-> pagesProcessed,
     totalAdsAvailable |-> totalAdsAvailable, isFirstPage |-> isFirstPage,
     detailsCollected |-> detailsCollected,
     consecutiveRateLimitErrors |-> consecutiveRateLimitErrors,
     lastBackoffTime |-> lastBackoffTime,
     dataset |-> dataset, metadata |-> metadata, waits |-> waits]

Commit(g, t) ==
    /\ queue' = g.queue
    /\ keys' = g.keys
    /\ failures' = g.failures
    /\ inflight' = (inflight \ {t}) \cup (IF g.slot.pc = "idle" THEN {} ELSE {g.slot})
    /\ urlsFound' = g.urlsFound
    /\ pagesProcessed' = g.pagesProcessed
    /\ totalAdsAvailable' = g.totalAdsAvailable
    /\ isFirstPage' = g.isFirstPage
    /\ detailsCollected' = g.detailsCollected
    /\ consecutiveRateLimitErrors' = g.consecutiveRateLimitErrors
    /\ lastBackoffTime' = g.lastBackoffTime
    /\ dataset' = g.dataset
    /\ metadata' = g.metadata
    /\ waits' = g.waits
    /\ UNCHANGED <<input, phase, scrape>>

(* An attempt ends with an error: the library reclaims the request for a   *)
(* retry, or hands it to failedRequestHandler once retries are used up.    *)
Throw(g, status) ==
    LET r == g.slot.req IN
    IF r.retryCount < maxRequestRetries
    THEN [g EXCEPT !.queue = Append(@, [r EXCEPT !.retryCount = @ + 1]),
                   !.slot = Idle, !.failures = @ + 1]
    ELSE [g EXCEPT !.slot = [Idle EXCEPT !.pc = "failedRequestHandler",
                                        !.req = r, !.status = status],
                   !.failures = @ + 1]

Metadata(g) ==
    [totalAdsAvailable |-> g.totalAdsAvailable,
     adsCollected |-> g.urlsFound,
     detailsCollected |-> g.detailsCollected,
     accountOwner |-> IF input.accountOwner = Undefined THEN "" ELSE input.accountOwner,
     keyword |-> IF input.keyword = Undefined THEN "" ELSE input.keyword]

NoMetadata ==
    [totalAdsAvailable |-> NoNumber, adsCollected |-> NoNumber,
     detailsCollected |-> NoNumber, accountOwner |-> "", keyword |-> ""]

saveProgress(g) == [g EXCEPT !.metadata = Metadata(g)]

(* A reset that forgets the delay. *)
resetRateLimitCounterOnly(g) ==
    IF g.consecutiveRateLimitErrors > 0
    THEN [g EXCEPT !.consecutiveRateLimitErrors = 0]
    ELSE g

resetRateLimitCounters(g) ==
    IF g.consecutiveRateLimitErrors > 0
    THEN [g EXCEPT !.consecutiveRateLimitErrors = 0,
                   !.lastBackoffTime = MIN_BACKOFF_TIME]
    ELSE g

(* handleRateLimit up to its await: count the error, compute and store the *)
(* delay, start waiting for it.                                            *)
handleRateLimit(g) ==
    LET backoffTime == BackoffStep(g.lastBackoffTime) IN
    [g EXCEPT !.consecutiveRateLimitErrors = @ + 1,
              !.lastBackoffTime = backoffTime,
              !.waits = Append(@, backoffTime),
              !.slot.pc = "backoff"]

---------------------------------------------------------------------------
(* requestHandler, LIST branch, from each point where it can resume *)

ListEndAwaitingSave(g) ==
    LET g1 == resetRateLimitCounters(g) IN
    [g1 EXCEPT !.slot.pc = "save3", !.slot.reqs = <<>>, !.slot.next = NoToken,
               !.slot.counted = g1.urlsFound - g1.slot.urls0, !.slot.urls0 = 0]

ListEnd(g) ==
    LET g1 == resetRateLimitCounters(g) IN
    [g1 EXCEPT !.slot.pc = "success", !.slot.reqs = <<>>, !.slot.next = NoToken,
               !.slot.counted = g1.urlsFound - g1.slot.urls0, !.slot.urls0 = 0]

(* The pagination step without the limit test before the next LIST page. *)
ListFromPaginationNoLimit(g, meta) ==
    LET cleanedToken == CleanToken(meta.token)
        g1 == [g EXCEPT !.slot.cursor =
                            IF meta.kind = "ok"
                            THEN [parsed |-> TRUE, isLastPage |-> meta.isLastPage,
                                  token |-> cleanedToken,
                                  known |-> UniqueKey(ListRequest(cleanedToken, FALSE))
                                                \in g.keys]
                            ELSE NoCursor]
    IN  IF meta.kind = "ok" /\ ~meta.isLastPage /\ meta.token # NoToken
        THEN IF IsEndToken(cleanedToken) THEN ListEnd(g1)
             ELSE [g1 EXCEPT !.slot.pc = "addNext", !.slot.next = cleanedToken]
        ELSE ListEnd(g1)

ListFromPagination(g, meta) ==
    LET cleanedToken == CleanToken(meta.token)
        g1 == [g EXCEPT !.slot.cursor =
                            IF meta.kind = "ok"
                            THEN [parsed |-> TRUE, isLastPage |-> meta.isLastPage,
                                  token |-> cleanedToken,
                                  known |-> UniqueKey(ListRequest(cleanedToken, FALSE))
                                                \in g.keys]
                            ELSE NoCursor]
    IN  IF meta.kind = "ok" /\ ~meta.isLastPage /\ meta.token # NoToken
        THEN IF IsEndToken(cleanedToken) THEN ListEnd(g1)
             ELSE IF LimitReached(g1.urlsFound) THEN ListEnd(g1)
             ELSE [g1 EXCEPT !.slot.pc = "addNext", !.slot.next = cleanedToken]
        ELSE ListEnd(g1)

ListFromPeriodicSave(g, meta) ==
    IF g.pagesProcessed % SAVE_METADATA_EVERY_N_PAGES = 0
    THEN [g EXCEPT !.slot.pc = "save2"]
    ELSE ListFromPagination(g, meta)

ListFromLimitCheck(g, ads, meta) ==
    IF LimitReached(g.urlsFound)
    THEN [g EXCEPT !.slot.pc = "success", !.slot.limited = TRUE]
    ELSE LET e == ExtractAds(ads, 1, g.urlsFound, <<>>)
             g1 == [g EXCEPT !.urlsFound = e.urlsFound,
                             !.slot.reqs = e.reqs,
                             !.slot.n = Len(ads),
                             !.slot.urls0 = g.urlsFound,
                             !.slot.capFree =
                                 unlimitedMode \/ g.urlsFound + Len(ads) < maxUrlsCount,
                             !.slot.fresh =
                                 /\ \A i \in 1..Len(ads) :
                                      /\ ads[i] # NoLink
                                      /\ UniqueKey(AdRequest(ads[i])) \notin g.keys
                                 /\ \A i, j \in 1..Len(ads) : ads[i] = ads[j] => i = j]
         IN  IF Len(e.reqs) > 0
             THEN [g1 EXCEPT !.slot.pc = "addAds"]
             ELSE ListFromPeriodicSave(g1, meta)

ListFromStart(g, count, ads, meta) ==
    LET g1 == [g EXCEPT !.pagesProcessed = @ + 1] IN
    IF g1.isFirstPage /\ g1.slot.req.initial
    THEN LET g2 == [g1 EXCEPT !.isFirstPage = FALSE] IN
         IF count.kind = "element"
         THEN [g2 EXCEPT !.totalAdsAvailable = count.n, !.slot.pc = "save1"]
         ELSE IF count.kind = "heading"
         THEN ListFromLimitCheck([g2 EXCEPT !.totalAdsAvailable = count.n], ads, meta)
         ELSE ListFromLimitCheck(g2, ads, meta)
    ELSE ListFromLimitCheck(g1, ads, meta)

---------------------------------------------------------------------------
(* requestHandler, AD branch *)

(* The dataset is the bag of the adIds of the records pushed to it. *)
BagAdd(B, e) == IF e \in DOMAIN B THEN [B EXCEPT ![e] = @ + 1] ELSE B @@ (e :> 1)

CopiesIn(B, e) == IF e \in DOMAIN B THEN B[e] ELSE 0

AdEnd(g) ==
    LET g1 == resetRateLimitCounters(g) IN [g1 EXCEPT !.slot.pc = "success"]

AdFromPushed(g) ==
    LET g1 == [g EXCEPT !.dataset = BagAdd(@, g.slot.req.adId),
                        !.detailsCollected = @ + 1]
    IN  IF g1.detailsCollected % (SAVE_METADATA_EVERY_N_PAGES * DETAILS_PER_PAGE_FACTOR) = 0
        THEN [g1 EXCEPT !.slot.pc = "save3"]
        ELSE AdEnd(g1)

---------------------------------------------------------------------------
(* utils.ts: cleanLinkedInUrl and parseImpressionRange.  A string is the   *)
(* sequence of its tokens.                                                 *)

(* The tokens of a URL: the part before the query, the separators and the  *)
(* parameters, each with its value.                                        *)
TrkParam == "trk=x"
Params == {TrkParam, "a=1", "b=2"}

RECURSIVE JoinParams(_)
JoinParams(ps) ==
    IF ps = <<>> THEN <<>>
    ELSE IF Len(ps) = 1 THEN <<ps[1]>>
    ELSE <<ps[1], "&">> \o JoinParams(Tail(ps))

(* The URL with the parameters ps, in order. *)
Url(ps) == IF ps = <<>> THEN <<"u">> ELSE <<"u", "?">> \o JoinParams(ps)

(* The href values of the advertiser link: every URL with at most          *)
(* MaxParams parameters.                                                   *)
Urls == {Url(ps) : ps \in SeqsUpTo(Params, MaxParams)}

(* The index of the first "&" of s at or after i, Len(s) + 1 if none. *)
RECURSIVE NextAmp(_, _)
NextAmp(s, i) == IF i > Len(s) \/ s[i] = "&" THEN i ELSE NextAmp(s, i + 1)

(* url.replace(/[?&]trk=[^&]+(&|$)/g, (_match, p1) => p1 === '&' ? '&' : '') *)
(* from index i on: a match starts at a separator followed by trk=, runs   *)
(* to the next "&" (which it includes) or to the end, and the scan goes on *)
(* behind the match.                                                       *)
RECURSIVE ReplaceTrk(_, _)
ReplaceTrk(s, i) ==
    IF i > Len(s) THEN <<>>
    ELSE IF s[i] \in {"?", "&"} /\ i < Len(s) /\ s[i + 1] = TrkParam
    THEN LET j == NextAmp(s, i + 1) IN
         IF j <= Len(s) THEN <<"&">> \o ReplaceTrk(s, j + 1) ELSE <<>>
    ELSE <<s[i]>> \o ReplaceTrk(s, i + 1)

(* cleanLinkedInUrl: the replacement, then .replace(/&$/, '') *)
cleanLinkedInUrl(url) ==
    IF url = <<>> THEN url
    ELSE LET r == ReplaceTrk(url, 1) IN
         IF r # <<>> /\ r[Len(r)] = "&" THEN SubSeq(r, 1, Len(r) - 1) ELSE r

(* The tokens of an impression text. *)
Digits == {"1", "2"}
TextTokens == Digits \cup {"<", "-", " ", "k", "m"}

DigitValue(c) == IF c = "1" THEN 1 ELSE 2

(* text().trim() *)
RECURSIVE Trim(_)
Trim(s) ==
    IF s = <<>> THEN s
    ELSE IF s[1] = " " THEN Trim(Tail(s))
    ELSE IF s[Len(s)] = " " THEN Trim(SubSeq(s, 1, Len(s) - 1))
    ELSE s

(* The texts of the total-impressions element: every trimmed text of at    *)
(* most MaxTextLen tokens.                                                 *)
ImpressionTexts == {s \in SeqsUpTo(TextTokens, MaxTextLen) : Trim(s) = s}

(* A number of JavaScript: NaN or the value v * scale, kept as its two     *)
(* factors; a field that is not set.                                       *)
NaN == [kind |-> "NaN", v |-> 0, scale |-> 1]
Num(n) == [kind |-> "number", v |-> n, scale |-> 1]
NotSet == [kind |-> "undefined", v |-> 0, scale |-> 1]

(* The digits of s from index i on, read as a decimal number after acc. *)
RECURSIVE DigitRun(_, _, _)
DigitRun(s, i, acc) ==
    IF i <= Len(s) /\ s[i] \in Digits
    THEN DigitRun(s, i + 1, 10 * acc + DigitValue(s[i]))
    ELSE acc

(* parseFloat: leading white space, an optional sign, then digits; what    *)
(* follows the digits is ignored; NaN without digits.                      *)
RECURSIVE parseFloat(_)
parseFloat(s) ==
    IF s = <<>> THEN NaN
    ELSE IF s[1] = " " THEN parseFloat(Tail(s))
    ELSE IF s[1] = "-"
    THEN IF Len(s) >= 2 /\ s[2] \in Digits THEN Num(0 - DigitRun(s, 2, 0)) ELSE NaN
    ELSE IF s[1] \in Digits THEN Num(DigitRun(s, 1, 0))
    ELSE NaN

(* x * n for the result x of parseFloat; NaN * n is NaN. *)
Times(x, n) == IF x.kind = "number" THEN [x EXCEPT !.scale = n] ELSE x

(* A parseValue that knows the suffix k only. *)
parseValueKiloOnly(val) ==
    LET v == Trim(val) IN
    IF v # <<>> /\ v[Len(v)] = "k" THEN Times(parseFloat(SubSeq(v, 1, Len(v) - 1)), 1000)
    ELSE parseFloat(v)

parseValue(val) ==
    LET v == Trim(val) IN
    IF v # <<>> /\ v[Len(v)] = "k" THEN Times(parseFloat(SubSeq(v, 1, Len(v) - 1)), 1000)
    ELSE IF v # <<>> /\ v[Len(v)] = "m"
    THEN Times(parseFloat(SubSeq(v, 1, Len(v) - 1)), 1000000)
    ELSE parseFloat(v)

(* The indices of the hyphens of s: split('-') gives one part more. *)
Hyphens(s) == {i \in 1..Len(s) : s[i] = "-"}

parseImpressionRange(impressionRange) ==
    IF impressionRange = <<>> THEN [min |-> NotSet, max |-> NotSet]
    ELSE IF impressionRange[1] = "<"
    THEN [min |-> NotSet, max |-> parseValue(Tail(impressionRange))]
    ELSE IF Cardinality(Hyphens(impressionRange)) = 1
    THEN LET h == CHOOSE i \in Hyphens(impressionRange) : TRUE IN
         [min |-> parseValue(SubSeq(impressionRange, 1, h - 1)),
          max |-> parseValue(SubSeq(impressionRange, h + 1, Len(impressionRange)))]
    ELSE LET value == parseValue(impressionRange) IN [min |-> value, max |-> value]

---------------------------------------------------------------------------
(* scrapeAdDetail (ad-detail-scraper.ts): the detail page it reads and the *)
(* record it builds                                                        *)

(* The value of data-creative-type on the .ad-preview element: absent, one *)
(* of the values the detection knows, or some other value.                 *)
NoMarker == "undefined"
OtherMarker == "OTHER"
KnownMarkers ==
    {"FOLLOW_COMPANY_V2", "SPOTLIGHT_V2", "JOBS_V2", "SPONSORED_VIDEO",
     "SPONSORED_INMAILS", "SPONSORED_UPDATE_CAROUSEL", "SPONSORED_NATIVE_DOCUMENT",
     "SPONSORED_UPDATE_NATIVE_DOCUMENT", "SPONSORED_EVENT", "SPONSORED_UPDATE_EVENT",
     "SPONSORED_STATUS_UPDATE", "TEXT_AD"}
Markers == KnownMarkers \cup {NoMarker, OtherMarker}

(* The labels of the "About the ad" panel the detection looks for. *)
Labels ==
    {"aboutAdFollowCompanyLabel", "aboutAdSpotlightLabel", "aboutAdJobLabel",
     "aboutAdMessageLabel", "aboutAdSingleImageLabel", "aboutAdTextLabel"}

(* The elements of the page the detection looks for, each named after the  *)
(* variable that holds its selection; videoUrl is a .share-native-video    *)
(* container from which a video URL can be extracted.                      *)
Structures ==
    {"videoElement", "videoUrl", "carouselElement", "carouselClass",
     "documentElement", "eventElement", "messageAdClass", "messageAdContent",
     "singleImageContent", "sponsoredContentHeadline", "imageElement",
     "textAdClass", "textAdContainer", "textOnlyElement", "jobAdElement"}

(* A detail page: its marker and the labels and elements present in it. *)
RECURSIVE SubsetsUpTo(_, _)
SubsetsUpTo(S, n) ==
    IF n = 0 THEN {{}}
    ELSE LET R == SubsetsUpTo(S, n - 1) IN R \cup {F \cup {e} : F \in R, e \in S}

(* The total-impressions element of the page, when one of the selectors    *)
(* finds it, and its text.                                                 *)
NoImpressions == [found |-> FALSE, text |-> <<>>]

(* An img element: where it stands (the first image of .ad-preview, the    *)
(* image of a carousel item, the logo of a text ad), its source resolved   *)
(* against the page URL, its alt attribute and the class onerror.          *)
LINKEDIN_PLACEHOLDER_IMG_URL == "https://static.licdn.com/aero-v1/sc/h/9l8dv1r8a09nem281grvopn9l"
OtherImgUrl == "https://media.licdn.com/image"
NoImg == [place |-> "none", src |-> "", alt |-> "undefined", onerror |-> FALSE]
Images ==
    [place : {"preview", "carouselItem", "textLogo"},
     src : {LINKEDIN_PLACEHOLDER_IMG_URL, OtherImgUrl},
     alt : {"undefined", "", "text"}, onerror : BOOLEAN]

(* The page with marker m and evidence f: href is the href of the          *)
(* advertiser link (empty when there is none), member the presence of the  *)
(* member link, senderName that of a sender name in the message preview.   *)
Page(m, f) ==
    [marker |-> m, found |-> f, href |-> <<>>, impressions |-> NoImpressions,
     img |-> NoImg, member |-> FALSE, senderName |-> FALSE]

Pages == {Page(m, f) : m \in Markers, f \in SubsetsUpTo(Labels \cup Structures, MaxEvidence)}

NoPage == Page(NoMarker, {})

(* Pages that differ in the advertiser link, in the impressions text, in   *)
(* an image, or in the member link and the sender.                         *)
UrlPages == {[NoPage EXCEPT !.href = u] : u \in Urls}

ImpressionPages ==
    {[NoPage EXCEPT !.impressions = [found |-> TRUE, text |-> s]] : s \in ImpressionTexts}

ImagePages ==
    {[Page(m, {}) EXCEPT !.img = i] :
        m \in {NoMarker, "SPONSORED_UPDATE_CAROUSEL", "TEXT_AD", "SPONSORED_STATUS_UPDATE"},
        i \in Images}

PromoterPages ==
    {[Page(m, {}) EXCEPT !.member = b, !.senderName = n] :
        m \in {NoMarker, "SPONSORED_INMAILS", "SPONSORED_STATUS_UPDATE"},
        b \in BOOLEAN, n \in BOOLEAN}

FieldPages == UrlPages \cup ImpressionPages \cup ImagePages \cup PromoterPages

(* The steps of the try block of scrapeAdDetail, in order. *)
ScrapeSteps ==
    <<"advertiser", "promoter", "adType", "extractAdContent",
      "extractAvailabilityDates", "extractImpressionData", "extractTargetingInfo">>

(* The record: adId and adDetailUrl are set at creation, adType starts     *)
(* empty, populated are the steps whose fields have been filled in.        *)
InitialAdDetail(adId) ==
    [adId |-> adId, adDetailUrl |-> TRUE, adType |-> "", populated |-> {},
     errorDuringScraping |-> FALSE,
     advertiserProfileUrl |-> <<>>, promotionType |-> "COMPANY",
     totalImpressions |-> [min |-> NotSet, max |-> NotSet],
     imageUrl |-> "", imageUrls |-> {}, carouselItems |-> <<>>]

NoAdDetail == [InitialAdDetail(0) EXCEPT !.adDetailUrl = FALSE]

(* The call of scrapeAdDetail: idle before it, in the try block, or        *)
(* returned; step is the number of steps of the try block that have run.   *)
NoScrape == [pc |-> "idle", step |-> 0, page |-> NoPage, adDetail |-> NoAdDetail]

(* The if / else-if chain that sets adDetail.adType in scrapeAdDetail;     *)
(* adType is the value the field holds when the chain is entered.          *)
DetectAdType(p, adType) ==
    LET creativeType == p.marker
        has(e) == e \in p.found
    IN  IF creativeType = "FOLLOW_COMPANY_V2" \/ has("aboutAdFollowCompanyLabel")
        THEN "FOLLOW_COMPANY"
        ELSE IF creativeType = "SPOTLIGHT_V2" \/ has("aboutAdSpotlightLabel")
        THEN "SPOTLIGHT"
        ELSE IF creativeType = "JOBS_V2" \/ has("aboutAdJobLabel")
        THEN "JOB"
        ELSE IF creativeType = "SPONSORED_VIDEO"
        THEN "VIDEO"
        ELSE IF \/ creativeType = "SPONSORED_INMAILS" \/ has("messageAdClass")
                \/ has("messageAdContent") \/ has("aboutAdMessageLabel")
        THEN "MESSAGE"
        ELSE IF \/ creativeType = "SPONSORED_UPDATE_CAROUSEL"
                \/ has("carouselElement") \/ has("carouselClass")
        THEN "CAROUSEL"
        ELSE IF \/ creativeType = "SPONSORED_NATIVE_DOCUMENT"
                \/ creativeType = "SPONSORED_UPDATE_NATIVE_DOCUMENT"
                \/ has("documentElement")
        THEN "DOCUMENT"
        ELSE IF creativeType = "SPONSORED_EVENT" \/ creativeType = "SPONSORED_UPDATE_EVENT"
        THEN "EVENT"
        ELSE IF \/ creativeType = "SPONSORED_STATUS_UPDATE" \/ has("aboutAdSingleImageLabel")
                \/ (has("singleImageContent") /\ has("sponsoredContentHeadline"))
        THEN "SINGLE_IMAGE"
        ELSE IF \/ creativeType = "TEXT_AD" \/ has("textAdClass")
                \/ has("textAdContainer") \/ has("aboutAdTextLabel")
        THEN "TEXT"
        ELSE IF has("videoElement") /\ adType = "UNKNOWN"
        THEN "VIDEO"
        ELSE IF (has("carouselElement") \/ has("carouselClass")) /\ adType = "UNKNOWN"
        THEN "CAROUSEL"
        ELSE IF /\ has("textOnlyElement") /\ ~has("imageElement") /\ ~has("videoElement")
                /\ adType = "UNKNOWN"
        THEN "TEXT"
        ELSE IF adType = "" \/ adType = "UNKNOWN" THEN "UNKNOWN" ELSE adType

(* What extractAdContent does to adDetail.adType: VIDEO when a video URL   *)
(* was extracted and the type is unknown or empty; the second chain when   *)
(* the type is UNKNOWN; the default of the switch.                         *)
ContentAdType(p, adType) ==
    LET has(e) == e \in p.found
        t1 == IF has("videoUrl") /\ (adType = "UNKNOWN" \/ adType = "") THEN "VIDEO" ELSE adType
        t2 == IF t1 # "UNKNOWN" THEN t1
              ELSE IF has("videoElement") THEN "VIDEO"
              ELSE IF has("carouselElement") THEN "CAROUSEL"
              ELSE IF has("documentElement") THEN "DOCUMENT"
              ELSE IF p.marker = "SPONSORED_UPDATE_EVENT" THEN "EVENT"
              ELSE IF has("jobAdElement") THEN "JOB"
              ELSE IF has("imageElement") \/ has("singleImageContent") THEN "SINGLE_IMAGE"
              ELSE IF has("messageAdContent") THEN "MESSAGE"
              ELSE IF has("textOnlyElement") \/ has("textAdClass") THEN "TEXT"
              ELSE "UNKNOWN"
    IN  IF t2 \in {"VIDEO", "CAROUSEL", "SPOTLIGHT", "FOLLOW_COMPANY", "JOB", "DOCUMENT",
                   "TEXT", "EVENT", "SINGLE_IMAGE", "MESSAGE"}
        THEN t2 ELSE "UNKNOWN"

(* isPotentialPlaceholder of extractAdContent, on an image with a source. *)
isPotentialPlaceholder(img) ==
    /\ img.src = LINKEDIN_PLACEHOLDER_IMG_URL
    /\ (img.alt = "" \/ img.onerror)

(* extractCarouselItems: the imageUrl of each item, in order. *)
extractCarouselItems(p) ==
    IF p.img.place = "carouselItem" THEN <<p.img.src>> ELSE <<>>

(* The image fields extractAdContent sets on a record of type adType: the  *)
(* main image and the list of images of .ad-preview, then the case of the  *)
(* switch for the type.                                                    *)
ContentImages(p, d, adType) ==
    LET inPreview == p.img.place \in {"preview", "carouselItem"}
        imageUrls == IF inPreview /\ ~isPotentialPlaceholder(p.img) THEN {p.img.src} ELSE {}
        d1 == IF imageUrls # {}
              THEN [d EXCEPT !.imageUrls = imageUrls,
                             !.imageUrl = IF @ = "" THEN p.img.src ELSE @]
              ELSE d
    IN  IF adType = "CAROUSEL" THEN [d1 EXCEPT !.carouselItems = extractCarouselItems(p)]
        ELSE IF adType = "TEXT" /\ p.img.place = "textLogo"
        THEN [d1 EXCEPT !.imageUrl = p.img.src, !.imageUrls = @ \cup {p.img.src}]
        ELSE d1

(* A switch whose MESSAGE case leaves the promotion type alone. *)
ContentPromotionTypeKept(p, d, adType) == d.promotionType

(* The MESSAGE case of the switch: a sender name makes the promotion a     *)
(* company promotion.                                                      *)
ContentPromotionType(p, d, adType) ==
    IF adType = "MESSAGE" /\ p.senderName THEN "COMPANY" ELSE d.promotionType

(* The promoter step: the member link decides the promotion type. *)
PromoterType(p) == IF p.member THEN "THOUGHT_LEADERSHIP" ELSE "COMPANY"

(* One step of the try block on the record. *)
ScrapeStep(p, d, step) ==
    LET d1 == [d EXCEPT !.populated = @ \cup {step}] IN
    IF step = "advertiser"
    THEN [d1 EXCEPT !.advertiserProfileUrl = cleanLinkedInUrl(p.href)]
    ELSE IF step = "promoter" THEN [d1 EXCEPT !.promotionType = PromoterType(p)]
    ELSE IF step = "adType" THEN [d1 EXCEPT !.adType = DetectAdType(p, d.adType)]
    ELSE IF step = "extractAdContent"
    THEN LET adType == ContentAdType(p, d.adType)
             d2 == ContentImages(p, d1, adType)
         IN  [d2 EXCEPT !.adType = adType,
                        !.promotionType = ContentPromotionType(p, d1, adType)]
    ELSE IF step = "extractImpressionData" /\ p.impressions.found
    THEN [d1 EXCEPT !.totalImpressions = parseImpressionRange(Trim(p.impressions.text))]
    ELSE d1

ScrapeCatchFresh(d) == [InitialAdDetail(d.adId) EXCEPT !.errorDuringScraping = TRUE]

(* The catch block: the error is noted on the record, which is returned. *)
ScrapeCatch(d) == [d EXCEPT !.errorDuringScraping = TRUE]

---------------------------------------------------------------------------
(* Initial state: the module-level declarations of main.ts, before the     *)
(* input is validated.                                                     *)

InitWith(in) ==
    /\ input = in
    /\ phase = "init"
    /\ queue = <<>>
    /\ keys = {}
    /\ inflight = {}
    /\ urlsFound = 0
    /\ pagesProcessed = 0
    /\ totalAdsAvailable = 0
    /\ isFirstPage = TRUE
    /\ detailsCollected = 0
    /\ consecutiveRateLimitErrors = 0
    /\ lastBackoffTime = MIN_BACKOFF_TIME
    /\ dataset = <<>>
    /\ metadata = NoMetadata
    /\ waits = <<>>
    /\ failures = 0
    /\ scrape = NoScrape

Init == \E in \in Inputs : InitWith(in)

(* The handlings whose requestHandler has returned. *)
Finished == {t \in inflight : t.pc = "success"}

(* requestHandler has returned and markRequestHandled only releases the    *)
(* task: it is taken before any other step (it commutes with all of them   *)
(* and only helps Dispatch and Finish), so a finished handling is seen     *)
(* once, in the state it ended in.  Ready are the tasks whose next         *)
(* callback may run.                                                       *)
Ready == IF Finished = {} THEN inflight ELSE {}

(* The tasks whose attempt may fail while fewer than budget attempts have  *)
(* failed.                                                                 *)
Failing(budget) == IF failures < budget THEN Ready ELSE {}

Shared == <<urlsFound, pagesProcessed, totalAdsAvailable, isFirstPage,
            detailsCollected, consecutiveRateLimitErrors, lastBackoffTime,
            dataset, metadata, waits, failures>>

(* Input validation, then the queue is opened and the initial LIST request *)
(* is added.                                                               *)
Startup ==
    /\ phase = "init"
    /\ IF InputValid
       THEN LET a == AddRequests(<<>>, {}, <<InitialRequest>>) IN
            /\ phase' = "running"
            /\ queue' = a.queue
            /\ keys' = a.keys
       ELSE /\ phase' = "crashed"
            /\ UNCHANGED <<queue, keys>>
    /\ UNCHANGED <<input, inflight, Shared, scrape>>

(* The library takes the request at the head of the queue when fewer than  *)
(* maxConcurrency requests are in flight (a returned request is released   *)
(* first).                                                                 *)
Dispatch ==
    /\ phase = "running"
    /\ Finished = {}
    /\ Cardinality(inflight) < maxCrawlerConcurrency
    /\ queue # <<>>
    /\ inflight' = inflight \cup {[Idle EXCEPT !.pc = "fetch", !.req = Head(queue)]}
    /\ queue' = Tail(queue)
    /\ UNCHANGED <<input, phase, keys, Shared, scrape>>

(* The navigation fails (error status or network error): requestHandler is *)
(* not called.                                                             *)
NavigationFail(t, status) ==
    /\ t.pc = "fetch"
    /\ Commit(Throw(Cur(t), status), t)

(* The page arrives but is too small: requestHandler throws before its try *)
SmallContent(t) ==
    /\ t.pc = "fetch"
    /\ Commit(Throw(Cur(t), 200), t)

(* An awaited call of the handler rejects: catch, log, rethrow. *)
AwaitFail(t) ==
    /\ t.pc \in {"save1", "addAds", "save2", "addNext", "push", "save3"}
    /\ Commit(Throw(Cur(t), 200), t)

ListPage(t, count, ads, meta) ==
    /\ t.pc = "fetch"
    /\ t.req.label = "LIST"
    /\ Commit(ListFromStart(Cur(t), count, ads, meta), t)

(* await saveProgress() of the first page returns *)
FirstSaveDone(t, ads, meta) ==
    /\ t.pc = "save1"
    /\ Commit(ListFromLimitCheck(saveProgress(Cur(t)), ads, meta), t)

(* await crawlerInstance.addRequests(adDetailRequests) returns *)
AddAdsDone(t, meta) ==
    /\ t.pc = "addAds"
    /\ LET g == Cur(t)
           a == AddRequests(g.queue, g.keys, g.slot.reqs)
       IN  Commit(ListFromPeriodicSave(
                      [g EXCEPT !.queue = a.queue, !.keys = a.keys,
                                !.slot.dAdded = a.added], meta), t)

(* the periodic await saveProgress() of the LIST branch returns *)
PeriodicSaveDone(t, meta) ==
    /\ t.pc = "save2"
    /\ Commit(ListFromPagination(saveProgress(Cur(t)), meta), t)

(* await crawlerInstance.addRequests([next LIST]) returns *)
AddNextDone(t) ==
    /\ t.pc = "addNext"
    /\ LET g == Cur(t)
           a == AddRequests(g.queue, g.keys, <<ListRequest(g.slot.next, FALSE)>>)
       IN  Commit(ListEnd([g EXCEPT !.queue = a.queue, !.keys = a.keys,
                                    !.slot.lAdded = a.added]), t)

(* AD branch: scrapeAdDetail returns the record, pushData is awaited *)
AdPage(t) ==
    /\ t.pc = "fetch"
    /\ t.req.label = "AD"
    /\ Commit([Cur(t) EXCEPT !.slot.pc = "push"], t)

(* await Actor.pushData(adDetail) returns *)
PushDataDone(t) ==
    /\ t.pc = "push"
    /\ Commit(AdFromPushed(Cur(t)), t)

(* the periodic await saveProgress() of the AD branch returns *)
DetailSaveDone(t) ==
    /\ t.pc = "save3"
    /\ Commit(AdEnd(saveProgress(Cur(t))), t)

(* requestHandler has returned: the library marks the request handled. *)
MarkHandled(t) ==
    /\ t.pc = "success"
    /\ Commit([Cur(t) EXCEPT !.slot = Idle], t)

(* A failedRequestHandler whose error ends the run. *)
failedRequestHandlerEscalates(t) ==
    /\ t.pc = "failedRequestHandler"
    /\ phase' = "crashed"
    /\ UNCHANGED <<input, queue, keys, inflight, Shared, scrape>>

(* failedRequestHandler: 429 backs off and rethrows, 403 retires the       *)
(* session, 404 is logged, anything else is logged and rethrown.  The      *)
(* request is finished in every case.                                      *)
failedRequestHandler(t) ==
    /\ t.pc = "failedRequestHandler"
    /\ IF t.status = 429
       THEN Commit(handleRateLimit(Cur(t)), t)
       ELSE Commit([Cur(t) EXCEPT !.slot = Idle], t)

(* The timer of handleRateLimit fires; failedRequestHandler throws error. *)
BackoffDone(t) ==
    /\ t.pc = "backoff"
    /\ Commit([Cur(t) EXCEPT !.slot = Idle], t)

(* crawler.run() resolves when the queue is empty and nothing is in        *)
(* flight; the final metadata is saved and the actor exits.                *)
Finish ==
    /\ phase = "running"
    /\ queue = <<>>
    /\ inflight = {}
    /\ phase' = "exited"
    /\ metadata' = Metadata(Cur(Idle))
    /\ UNCHANGED <<input, queue, keys, inflight, urlsFound, pagesProcessed,
                   totalAdsAvailable, isFirstPage, detailsCollected,
                   consecutiveRateLimitErrors, lastBackoffTime, dataset, waits,
                   failures, scrape>>

(* The steps of the environment and of the handlers that are the same in  *)
(* every specification.                                                    *)
Step ==
    \/ Startup
    \/ Dispatch
    \/ Finish
    \/ \E t \in Finished : MarkHandled(t)
    \/ \E t \in Ready : AddNextDone(t)
    \/ \E t \in Ready : AdPage(t)
    \/ \E t \in Ready : PushDataDone(t)

(* An attempt fails. *)
Fail(budget) ==
    \/ \E t \in Failing(budget), status \in NavFailStatuses : NavigationFail(t, status)
    \/ \E t \in Failing(budget) : SmallContent(t)
    \/ \E t \in Failing(budget) : AwaitFail(t)

Next ==
    \/ Step
    \/ Fail(MaxFailures)
    \/ \E t \in Ready, count \in Counts, ads \in AdLists, meta \in Metas :
            ListPage(t, count, ads, meta)
    \/ \E t \in Ready, ads \in AdLists, meta \in Metas : FirstSaveDone(t, ads, meta)
    \/ \E t \in Ready, meta \in Metas : AddAdsDone(t, meta)

Spec == Init /\ [][Next]_vars

---------------------------------------------------------------------------
(* FailSpec: a site of two pages (the first declares ad 1 and a next       *)
(* token, the second declares ad 2 and ends), a limit of two URLs, and     *)
(* enough failures for one request to use up its retries and one more      *)
(* attempt to fail.                                                        *)

FailInput ==
    [accountOwner |-> "acme", keyword |-> Undefined, maxUrlsCount |-> 2,
     unlimitedMode |-> "false", scrapeAdDetails |-> "true",
     maxCrawlerConcurrency |-> MaxConcurrency, localMode |-> "true"]

FailBudget == maxRequestRetries + 2

FailAds(r) == IF r.initial THEN <<1>> ELSE <<2>>

FailMeta(r) ==
    IF r.initial THEN [kind |-> "ok", isLastPage |-> FALSE, token |-> <<"a">>]
    ELSE [kind |-> "ok", isLastPage |-> TRUE, token |-> NoToken]

FailInit == InitWith(FailInput)

FailNext ==
    \/ Step
    \/ Fail(FailBudget)
    \/ \E t \in Ready : ListPage(t, CountElement, FailAds(t.req), FailMeta(t.req))
    \/ \E t \in Ready : FirstSaveDone(t, FailAds(t.req), FailMeta(t.req))
    \/ \E t \in Ready : AddAdsDone(t, FailMeta(t.req))
    \/ \E t \in Ready : failedRequestHandler(t)
    \/ \E t \in Ready : BackoffDone(t)

FailSpec == FailInit /\ [][FailNext]_vars

(* The event loop runs a callback that is ready, and the crawler takes a   *)
(* pending request when a slot is free: some enabled step is taken.        *)
LiveFailSpec == FailSpec /\ WF_vars(FailNext)

---------------------------------------------------------------------------
(* LongSpec: unlimited mode on a site of LongPages pages; page k declares  *)
(* the ads of page k - 1 again and LongAdsPerPage new ones, so that the    *)
(* page counter and the detail counter reach the periodic saves.  The only *)
(* failure is one rejected periodic save of the AD branch.                 *)

LongInput ==
    [accountOwner |-> "acme", keyword |-> Undefined, maxUrlsCount |-> NoNumber,
     unlimitedMode |-> "true", scrapeAdDetails |-> "true",
     maxCrawlerConcurrency |-> MaxConcurrency, localMode |-> "false"]

LongAdsPerPage == DETAILS_PER_PAGE_FACTOR
LongPages == SAVE_METADATA_EVERY_N_PAGES + 1

(* The page a request asks for: 1 for the initial request, otherwise one   *)
(* more than the length of its token.                                      *)
PageNo(r) == IF r.initial THEN 1 ELSE Len(r.token) + 1

LongAds(r) ==
    LET k == PageNo(r)
        first == IF k = 1 THEN 1 ELSE (k - 2) * LongAdsPerPage + 1
    IN  [i \in 1..(k * LongAdsPerPage - first + 1) |-> first + i - 1]

LongMeta(r) ==
    IF PageNo(r) < LongPages
    THEN [kind |-> "ok", isLastPage |-> FALSE, token |-> [i \in 1..PageNo(r) |-> "a"]]
    ELSE [kind |-> "ok", isLastPage |-> TRUE, token |-> NoToken]

LongInit == InitWith(LongInput)

LongNext ==
    \/ Step
    \/ \E t \in {u \in Failing(1) : u.pc = "save3"} : AwaitFail(t)
    \/ \E t \in Ready : ListPage(t, CountHeading, LongAds(t.req), LongMeta(t.req))
    \/ \E t \in Ready : AddAdsDone(t, LongMeta(t.req))
    \/ \E t \in Ready : PeriodicSaveDone(t, LongMeta(t.req))
    \/ \E t \in Ready : DetailSaveDone(t)

LongSpec == LongInit /\ [][LongNext]_vars

---------------------------------------------------------------------------
(* TightSpec: unlimited mode on a site of TightPages pages; page k         *)
(* declares LongAdsPerPage ads no other page declares, so that the detail  *)
(* counter reaches the periodic save of the AD branch when every ad found  *)
(* has been pushed.  The only failure is one rejected periodic save of the *)
(* AD branch.                                                              *)

TightPages == SAVE_METADATA_EVERY_N_PAGES

TightAds(r) == [i \in 1..LongAdsPerPage |-> (PageNo(r) - 1) * LongAdsPerPage + i]

TightMeta(r) ==
    IF PageNo(r) < TightPages
    THEN [kind |-> "ok", isLastPage |-> FALSE, token |-> [i \in 1..PageNo(r) |-> "a"]]
    ELSE [kind |-> "ok", isLastPage |-> TRUE, token |-> NoToken]

TightNext ==
    \/ Step
    \/ \E t \in {u \in Failing(1) : u.pc = "save3"} : AwaitFail(t)
    \/ \E t \in Ready : ListPage(t, CountHeading, TightAds(t.req), TightMeta(t.req))
    \/ \E t \in Ready : AddAdsDone(t, TightMeta(t.req))
    \/ \E t \in Ready : PeriodicSaveDone(t, TightMeta(t.req))
    \/ \E t \in Ready : DetailSaveDone(t)

TightSpec == LongInit /\ [][TightNext]_vars

---------------------------------------------------------------------------
(* CapSpec: a site without end (page k declares the one ad k and the token *)
(* of page k + 1) crawled with a limit of MaxUrls + 1 URLs, with failed    *)
(* attempts as in Spec.  LiveCapSpec adds the progress of the crawler.     *)

CapInput ==
    [accountOwner |-> "acme", keyword |-> Undefined, maxUrlsCount |-> MaxUrls + 1,
     unlimitedMode |-> "false", scrapeAdDetails |-> "true",
     maxCrawlerConcurrency |-> MaxConcurrency, localMode |-> "false"]

CapAds(r) == <<PageNo(r)>>

CapMeta(r) == [kind |-> "ok", isLastPage |-> FALSE, token |-> [i \in 1..PageNo(r) |-> "a"]]

CapInit == InitWith(CapInput)

CapNext ==
    \/ Step
    \/ Fail(MaxFailures)
    \/ \E t \in Ready : ListPage(t, CountElement, CapAds(t.req), CapMeta(t.req))
    \/ \E t \in Ready : FirstSaveDone(t, CapAds(t.req), CapMeta(t.req))
    \/ \E t \in Ready : AddAdsDone(t, CapMeta(t.req))

CapSpec == CapInit /\ [][CapNext]_vars

LiveCapSpec == CapSpec /\ WF_vars(CapNext)

---------------------------------------------------------------------------
(* DefaultSpec: the site and the failures of FailSpec, crawled with an     *)
(* input that has a limit of one URL and does not supply unlimitedMode.    *)

DefaultInput == [FailInput EXCEPT !.maxUrlsCount = 1, !.unlimitedMode = Undefined]

DefaultInit == InitWith(DefaultInput)

DefaultSpec == DefaultInit /\ [][FailNext]_vars

---------------------------------------------------------------------------
(* ScrapeSpec: a site of one page that declares ad 1 and ends; the detail  *)
(* page of the ad is any page of Pages, and the call of scrapeAdDetail in  *)
(* the AD branch is unfolded into the steps of its try block, any of which *)
(* may throw.                                                              *)

ScrapeInput ==
    [accountOwner |-> "acme", keyword |-> Undefined, maxUrlsCount |-> NoNumber,
     unlimitedMode |-> "false", scrapeAdDetails |-> "true",
     maxCrawlerConcurrency |-> MaxConcurrency, localMode |-> "false"]

ScrapeAds == <<1>>

ScrapeMeta == [kind |-> "ok", isLastPage |-> TRUE, token |-> NoToken]

ScrapeInit == InitWith(ScrapeInput)

(* The AD branch calls scrapeAdDetail(body, request.url): the record is    *)
(* created before the try block is entered.                                *)
ScrapeCall(t, p) ==
    /\ t.pc = "fetch"
    /\ t.req.label = "AD"
    /\ scrape.pc = "idle"
    /\ scrape' = [pc |-> "try", step |-> 0, page |-> p,
                  adDetail |-> InitialAdDetail(t.req.adId)]
    /\ UNCHANGED <<input, phase, queue, keys, inflight, Shared>>

(* The next step of the try block runs to its end. *)
ScrapeTry ==
    /\ scrape.pc = "try"
    /\ scrape.step < Len(ScrapeSteps)
    /\ scrape' = [scrape EXCEPT
                    !.step = @ + 1,
                    !.adDetail = ScrapeStep(scrape.page, @, ScrapeSteps[scrape.step + 1])]
    /\ UNCHANGED <<input, phase, queue, keys, inflight, Shared>>

(* The next step of the try block throws: the catch block returns. *)
ScrapeThrow ==
    /\ scrape.pc = "try"
    /\ scrape.step < Len(ScrapeSteps)
    /\ scrape' = [scrape EXCEPT !.pc = "returned", !.adDetail = ScrapeCatch(@)]
    /\ UNCHANGED <<input, phase, queue, keys, inflight, Shared>>

(* The try block is done: return adDetail. *)
ScrapeReturn ==
    /\ scrape.pc = "try"
    /\ scrape.step = Len(ScrapeSteps)
    /\ scrape' = [scrape EXCEPT !.pc = "returned"]
    /\ UNCHANGED <<input, phase, queue, keys, inflight, Shared>>

(* The AD branch goes on with the record that was returned. *)
ScrapedAdPage(t) ==
    /\ scrape.pc = "returned"
    /\ AdPage(t)

ScrapeOn(P) ==
    \/ Startup
    \/ Dispatch
    \/ Finish
    \/ \E t \in Finished : MarkHandled(t)
    \/ \E t \in Ready : ListPage(t, CountElement, ScrapeAds, ScrapeMeta)
    \/ \E t \in Ready : FirstSaveDone(t, ScrapeAds, ScrapeMeta)
    \/ \E t \in Ready : AddAdsDone(t, ScrapeMeta)
    \/ \E t \in {u \in Ready : u.pc = "fetch" /\ scrape.pc = "idle"} :
            \E p \in P : ScrapeCall(t, p)
    \/ ScrapeTry
    \/ ScrapeThrow
    \/ ScrapeReturn
    \/ \E t \in Ready : ScrapedAdPage(t)
    \/ \E t \in Ready : PushDataDone(t)

ScrapeNext == ScrapeOn(Pages)

ScrapeSpec == ScrapeInit /\ [][ScrapeNext]_vars

(* FieldSpec: the same site, the detail page of the ad is any page of      *)
(* FieldPages.                                                             *)
FieldNext == ScrapeOn(FieldPages)

FieldSpec == ScrapeInit /\ [][FieldNext]_vars

---------------------------------------------------------------------------
(* BackoffSpec: the run of ScrapeSpec on a first page that declares        *)
(* MaxBackoffs ads, from the moment the page has been handled and each of  *)
(* the AD requests has failed maxRequestRetries times; every further       *)
(* attempt either meets a 429 and ends in failedRequestHandler, or         *)
(* succeeds.                                                               *)

BackoffAds == [i \in 1..MaxBackoffs |-> i]

BackoffInit ==
    /\ input = ScrapeInput
    /\ phase = "running"
    /\ queue = [i \in 1..MaxBackoffs |->
                    [AdRequest(BackoffAds[i]) EXCEPT !.retryCount = maxRequestRetries]]
    /\ keys = {UniqueKey(InitialRequest)}
                \cup {UniqueKey(AdRequest(BackoffAds[i])) : i \in 1..MaxBackoffs}
    /\ inflight = {}
    /\ urlsFound = MaxBackoffs
    /\ pagesProcessed = 1
    /\ totalAdsAvailable = CountElement.n
    /\ isFirstPage = FALSE
    /\ detailsCollected = 0
    /\ consecutiveRateLimitErrors = 0
    /\ lastBackoffTime = MIN_BACKOFF_TIME
    /\ dataset = <<>>
    /\ metadata = [totalAdsAvailable |-> CountElement.n, adsCollected |-> 0,
                   detailsCollected |-> 0, accountOwner |-> "acme", keyword |-> ""]
    /\ waits = <<>>
    /\ failures = 0
    /\ scrape = NoScrape

BackoffNext ==
    \/ Dispatch
    \/ Finish
    \/ \E t \in Finished : MarkHandled(t)
    \/ \E t \in Ready : NavigationFail(t, 429)
    \/ \E t \in Ready : failedRequestHandler(t)
    \/ \E t \in Ready : BackoffDone(t)
    \/ \E t \in Ready : AdPage(t)
    \/ \E t \in Ready : PushDataDone(t)

BackoffSpec == BackoffInit /\ [][BackoffNext]_vars

---------------------------------------------------------------------------
(* Properties *)

Pending(label) == {i \in 1..Len(queue) : queue[i].label = label}

Accepted(label) == {k \in keys : k.label = label}

(* C1: with unlimitedMode=false the number of DETAIL (AD) requests the     *)
(* queue has ever accepted is at most maxUrlsCount, whatever pages are     *)
(* retried or handled at the same time.                                    *)
C1_DetailCap ==
    input.unlimitedMode = "false" => Cardinality(Accepted("AD")) <= maxUrlsCount

(* C1 witness: the cap is reached in a run where a listing attempt failed  *)
(* and pages were handled again after it.                                  *)
C1_Witness ==
    /\ input.unlimitedMode = "false"
    /\ Cardinality(Accepted("AD")) = maxUrlsCount
    /\ urlsFound = maxUrlsCount
    /\ failures > 0
    /\ pagesProcessed >= 3

(* The waits the spec lists for six consecutive rate-limit signals. *)
ExpectedWaits == <<10000, 15000, 22500, 33750, 50625, 60000>>

(* C2: as long as no successful request has reset the governor (every wait *)
(* made so far belongs to the current run of consecutive signals), the     *)
(* i-th wait is the i-th of 10000, 15000, 22500, 33750, 50625, 60000.      *)
C2_BackoffSequence ==
    Len(waits) = consecutiveRateLimitErrors =>
        \A i \in 1..Len(waits) : i <= Len(ExpectedWaits) => waits[i] = ExpectedWaits[i]

(* C3: when the governor's wait for a rate-limited request ends, the same  *)
(* request is pending again (it is retried, not dropped).                  *)
C3_RetriedAfterBackoff ==
    [][\A t \in inflight :
          (t.pc = "backoff" /\ t \notin inflight')
              => \E i \in 1..Len(queue') : UniqueKey(queue'[i]) = UniqueKey(t.req)]_vars

(* C4: when a request handler has ended without an error, the governor is  *)
(* in its initial state: no consecutive failures, delay at the floor.      *)
C4_ResetAfterSuccess ==
    Finished # {} =>
        consecutiveRateLimitErrors = 0 /\ lastBackoffTime = MIN_BACKOFF_TIME

DeclaredTwice == 1..((LongPages - 1) * LongAdsPerPage)

(* C6: at the end of the run an ad that two pages declared has exactly one *)
(* accepted AD request and exactly one record in the dataset.              *)
C6_DuplicateAdOneRecord ==
    phase = "exited" =>
        \A a \in DeclaredTwice :
            /\ UniqueKey(AdRequest(a)) \in keys
            /\ CopiesIn(dataset, a) = 1

(* C7: no AD request has more than one record in the dataset, over all of  *)
(* its attempts.                                                           *)
C7_AtMostOneRecord == \A a \in DOMAIN dataset : dataset[a] <= 1

(* C8: a DETAIL (AD) request is dispatched only when no LISTING request is *)
(* pending.                                                                *)
C8_ListingFirst ==
    [][\A t \in inflight' \ inflight :
          (t.pc = "fetch" /\ t.req.label = "AD") => Pending("LIST") = {}]_vars

(* C9: with localMode=true at most one request is in flight, and no AD     *)
(* request is in flight while a LIST request is pending or in flight.      *)
C9_LocalSequential ==
    input.localMode = "true" =>
        /\ Cardinality(inflight) <= 1
        /\ \A t \in inflight :
              t.req.label = "AD" =>
                  /\ Pending("LIST") = {}
                  /\ \A u \in inflight : u.req.label # "LIST"

(* A cursor that leads to a next page: parsed, not the last page, a token  *)
(* that is not empty, not "0" and not a page the queue already knew.       *)
ValidNext(c) ==
    c.parsed /\ ~c.isLastPage /\ c.token # NoToken /\ c.token # <<"0">> /\ ~c.known

ExitedNormally ==
    /\ phase = "exited"
    /\ queue = <<>>
    /\ inflight = {}
    /\ metadata.adsCollected = urlsFound
    /\ metadata.detailsCollected = detailsCollected

C13_ConfigurationError ==
    IF input.accountOwner = Undefined /\ input.keyword = Undefined
    THEN /\ phase \in {"init", "crashed"}
         /\ queue = <<>> /\ keys = {} /\ inflight = {}
         /\ dataset = <<>> /\ metadata = NoMetadata
    ELSE phase # "crashed"

(* C13 witness: a run without accountOwner and keyword has crashed *)
C13_Witness ==
    /\ input.accountOwner = Undefined /\ input.keyword = Undefined
    /\ phase = "crashed"

(* The values an ad type may have. *)
CreativeTypes ==
    {"VIDEO", "CAROUSEL", "DOCUMENT", "EVENT", "MESSAGE", "SINGLE_IMAGE", "TEXT",
     "FOLLOW_COMPANY", "SPOTLIGHT", "JOB", "UNKNOWN"}

(* C14: every record that scrapeAdDetail returns, the records returned by  *)
(* the catch block after an exception at any step included, has an ad type *)
(* that is one of the eleven values and is never empty.                    *)
C14_CreativeTypeAlwaysSet ==
    scrape.pc = "returned" => scrape.adDetail.adType \in CreativeTypes

(* The type each known marker stands for. *)
MarkerType(creativeType) ==
    CASE creativeType = "FOLLOW_COMPANY_V2" -> "FOLLOW_COMPANY"
      [] creativeType = "SPOTLIGHT_V2" -> "SPOTLIGHT"
      [] creativeType = "JOBS_V2" -> "JOB"
      [] creativeType = "SPONSORED_VIDEO" -> "VIDEO"
      [] creativeType = "SPONSORED_INMAILS" -> "MESSAGE"
      [] creativeType = "SPONSORED_UPDATE_CAROUSEL" -> "CAROUSEL"
      [] creativeType \in {"SPONSORED_NATIVE_DOCUMENT", "SPONSORED_UPDATE_NATIVE_DOCUMENT"}
            -> "DOCUMENT"
      [] creativeType \in {"SPONSORED_EVENT", "SPONSORED_UPDATE_EVENT"} -> "EVENT"
      [] creativeType = "SPONSORED_STATUS_UPDATE" -> "SINGLE_IMAGE"
      [] creativeType = "TEXT_AD" -> "TEXT"
      [] OTHER -> "UNKNOWN"

(* The call returned from the end of the try block. *)
ScrapedWithoutError == scrape.pc = "returned" /\ ~scrape.adDetail.errorDuringScraping

(* C15: when the preview container carries a marker that stands for a     *)
(* type, the record has that type, whatever labels and elements the page   *)
(* holds besides.                                                          *)
C15_MarkerWins ==
    ScrapedWithoutError /\ scrape.page.marker \in KnownMarkers
        => scrape.adDetail.adType = MarkerType(scrape.page.marker)

(* A page without marker and without label of the side panel. *)
OnlyStructure == scrape.page.marker = NoMarker /\ scrape.page.found \cap Labels = {}

(* C16: on a page without marker and without label the structural tests   *)
(* decide in the order video, carousel, ...: a video element gives VIDEO   *)
(* (also next to a carousel), a carousel without video gives CAROUSEL      *)
(* (also next to message content), and no evidence at all gives UNKNOWN.   *)
C16_StructuralOrder ==
    ScrapedWithoutError /\ OnlyStructure =>
        LET found == scrape.page.found
            adType == scrape.adDetail.adType
            video == found \cap {"videoElement", "videoUrl"} # {}
            carousel == found \cap {"carouselElement", "carouselClass"} # {}
        IN  /\ video => adType = "VIDEO"
            /\ ~video /\ carousel => adType = "CAROUSEL"
            /\ found = {} => adType = "UNKNOWN"

(* C17: when a step of the try block throws, scrapeAdDetail returns the    *)
(* record with its adId, its detail URL, the fields of the steps that ran  *)
(* before and the error note; the AD branch pushes it to the dataset and   *)
(* counts it in detailsCollected, and the run ends normally.               *)
C17_ErrorRecordEmitted ==
    scrape.adDetail.errorDuringScraping =>
        /\ scrape.pc = "returned"
        /\ scrape.adDetail.adId = 1
        /\ scrape.adDetail.adDetailUrl
        /\ scrape.adDetail.populated = {ScrapeSteps[i] : i \in 1..scrape.step}
        /\ phase # "crashed"
        /\ phase = "exited" =>
                /\ CopiesIn(dataset, scrape.adDetail.adId) = 1
                /\ detailsCollected = 1
                /\ metadata.detailsCollected = 1

C17_Witness ==
    /\ scrape.adDetail.errorDuringScraping
    /\ scrape.step = 3
    /\ scrape.adDetail.populated = {"advertiser", "promoter", "adType"}
    /\ phase = "exited"
    /\ CopiesIn(dataset, 1) = 1
    /\ detailsCollected = 1

C19_DefaultIsLimited ==
    input.unlimitedMode = Undefined =>
        /\ urlsFound <= maxUrlsCount
        /\ Cardinality(Accepted("AD")) <= maxUrlsCount
        /\ \A t \in Finished :
              t.req.label = "LIST" /\ urlsFound >= maxUrlsCount => t.lAdded = 0

(* The documented bounds of the delay before a request. *)
minDetailDelay == 3000
maxDetailDelay == 5000

(* The waits of the run, all made with setTimeout and recorded in waits,   *)
(* that lie within the bounds of the jitter.                               *)
JitterWaits == {i \in DOMAIN waits : minDetailDelay <= waits[i] /\ waits[i] <= maxDetailDelay}

(* C20: every request is preceded by a delay of its own between            *)
(* minDetailDelay and maxDetailDelay: the run has waited within these      *)
(* bounds at least once for each request that is being fetched.            *)
C20_JitterBeforeRequest ==
    Cardinality(JitterWaits) >= Cardinality({t \in inflight : t.pc = "fetch"})

InBackoff == \E t \in inflight : t.pc = "backoff"

(* C22: while a backoff wait is in progress no request is issued: no       *)
(* request starts being fetched.                                           *)
C22_NoRequestDuringBackoff ==
    [][InBackoff => \A u \in inflight' : u.pc = "fetch" => u \in inflight]_vars


(* The parameters of ps other than trk, in order. *)
NotTrk(q) == q # TrkParam
WithoutTrk(ps) == SelectSeq(ps, NotTrk)

(* C23: once the advertiser step has run on a page whose advertiser link   *)
(* carries the parameters ps, advertiserProfileUrl is the URL with the     *)
(* parameters of ps other than trk, in the same order and with their       *)
(* values: the query starts with "?" when a parameter is left and no       *)
(* separator is leading, doubled or trailing.                              *)
C23_OnlyTrkRemoved ==
    \A ps \in SeqsUpTo(Params, MaxParams) :
        (scrape.page.href = Url(ps) /\ "advertiser" \in scrape.adDetail.populated)
            => scrape.adDetail.advertiserProfileUrl = Url(WithoutTrk(ps))

(* An amount as the library page writes it: digits and a unit. *)
Amounts == [digits : UNION {[1..k -> Digits] : k \in 1..2}, unit : {"", "k", "m"}]
AmountText(a) == IF a.unit = "" THEN a.digits ELSE Append(a.digits, a.unit)

RECURSIVE Decimal(_)
Decimal(ds) ==
    IF ds = <<>> THEN 0
    ELSE 10 * Decimal(SubSeq(ds, 1, Len(ds) - 1)) + DigitValue(ds[Len(ds)])

AmountValue(a) ==
    [kind |-> "number", v |-> Decimal(a.digits),
     scale |-> IF a.unit = "k" THEN 1000 ELSE IF a.unit = "m" THEN 1000000 ELSE 1]

ImpressionsParsed == "extractImpressionData" \in scrape.adDetail.populated

(* C24: once extractImpressionData has run on a page whose impressions     *)
(* text is "A-B", totalImpressions has min A and max B; on "<A" or "< A"   *)
(* it has only max A; on a single amount A it has min and max A; k counts  *)
(* thousands and m millions.                                               *)
C24_ImpressionRange ==
    ImpressionsParsed =>
        \A a \in Amounts :
            LET text == scrape.page.impressions.text
                parsed == scrape.adDetail.totalImpressions
            IN  /\ text = AmountText(a)
                    => parsed = [min |-> AmountValue(a), max |-> AmountValue(a)]
                /\ text \in {<<"<">> \o AmountText(a), <<"<", " ">> \o AmountText(a)}
                    => parsed = [min |-> NotSet, max |-> AmountValue(a)]
                /\ \A b \in Amounts :
                        text = AmountText(a) \o <<"-">> \o AmountText(b)
                            => parsed = [min |-> AmountValue(a), max |-> AmountValue(b)]

C24_Witness ==
    /\ ImpressionsParsed
    /\ scrape.page.impressions.text = <<"1", "k", "-", "2", "m">>
    /\ scrape.adDetail.totalImpressions =
            [min |-> [kind |-> "number", v |-> 1, scale |-> 1000],
             max |-> [kind |-> "number", v |-> 2, scale |-> 1000000]]

(* x <= y for two numbers, each the product of its factors. *)
Leq(x, y) ==
    IF x.scale = y.scale THEN x.v <= y.v
    ELSE IF x.scale < y.scale
    THEN LET r == y.scale \div x.scale IN 0 - ((0 - x.v) \div r) <= y.v
    ELSE LET r == x.scale \div y.scale IN x.v <= y.v \div r

(* C25: in the record scrapeAdDetail returns, a totalImpressions that has  *)
(* both a min and a max has min <= max.                                    *)
C25_MinAtMostMax ==
    LET parsed == scrape.adDetail.totalImpressions IN
    (scrape.pc = "returned" /\ parsed.min.kind = "number" /\ parsed.max.kind = "number")
        => Leq(parsed.min, parsed.max)

(* The image URLs recorded in the record d. *)
RecordedImages(d) ==
    {d.imageUrl} \cup d.imageUrls \cup {d.carouselItems[i] : i \in 1..Len(d.carouselItems)}

(* The image of the page is a placeholder: its source is the placeholder   *)
(* URL and its alt text is empty or it carries the class onerror.          *)
PlaceholderOnPage ==
    /\ scrape.page.img.src = LINKEDIN_PLACEHOLDER_IMG_URL
    /\ (scrape.page.img.alt = "" \/ scrape.page.img.onerror)

(* C26: the placeholder URL of a placeholder image is in no image field of *)
(* the record, whatever the type of the ad; an image with the placeholder  *)
(* URL, an alt text and no class onerror is recorded.                      *)
C26_NoPlaceholderRecorded ==
    /\ PlaceholderOnPage => LINKEDIN_PLACEHOLDER_IMG_URL \notin RecordedImages(scrape.adDetail)
    /\ ( /\ scrape.page.img.src = LINKEDIN_PLACEHOLDER_IMG_URL
         /\ scrape.page.img.alt = "text"
         /\ ~scrape.page.img.onerror
         /\ scrape.page.img.place = "preview"
         /\ "extractAdContent" \in scrape.adDetail.populated )
        => LINKEDIN_PLACEHOLDER_IMG_URL \in RecordedImages(scrape.adDetail)

(* The MESSAGE case of extractAdContent has found a sender name. *)
SenderOverride ==
    /\ "extractAdContent" \in scrape.adDetail.populated
    /\ scrape.adDetail.adType = "MESSAGE"
    /\ scrape.page.senderName

(* C27, as stated: once the promoter step has run, promotionType is        *)
(* THOUGHT_LEADERSHIP exactly when the page has a member link, and stays   *)
(* so through the later steps.                                             *)
C27_MemberLinkDecides ==
    "promoter" \in scrape.adDetail.populated
        => (scrape.adDetail.promotionType = "THOUGHT_LEADERSHIP" <=> scrape.page.member)

(* C27, amended: promotionType is THOUGHT_LEADERSHIP exactly when the      *)
(* promoter step has run on a page with a member link and the MESSAGE case *)
(* has not found a sender name; it is COMPANY otherwise.                   *)
C27_MemberLinkUnlessSender ==
    /\ scrape.adDetail.promotionType \in {"THOUGHT_LEADERSHIP", "COMPANY"}
    /\ scrape.adDetail.promotionType = "THOUGHT_LEADERSHIP"
        <=> ("promoter" \in scrape.adDetail.populated /\ scrape.page.member /\ ~SenderOverride)

C27_Witness ==
    /\ scrape.pc = "returned"
    /\ scrape.page.member
    /\ SenderOverride
    /\ scrape.adDetail.promotionType = "COMPANY"

(* The LIST requests that are pending or in flight. *)
ListInFlight == {t \in inflight : t.req.label = "LIST"}
ListItems == Cardinality(Pending("LIST")) + Cardinality(ListInFlight)

(* C28, as stated: at every moment at most one LIST request is pending or  *)
(* in flight.                                                              *)
C28_OneListing == ListItems <= 1

(* The LIST requests that are pending or whose handling has not ended. *)
ListUnhandled ==
    Cardinality(Pending("LIST")) + Cardinality({t \in ListInFlight : t.pc # "success"})

(* C28, amended: at most one LIST request is pending or still being        *)
(* handled; a step accepts at most one new LIST request, and after the     *)
(* initial one only as the last await of a LIST handling, which then ends  *)
(* successfully; no handling adds more than one.                           *)
C28_ProducerChain ==
    [][/\ ListUnhandled' <= 1
       /\ \A t \in inflight' : t.lAdded <= 1
       /\ LET new == Accepted("LIST")' \ Accepted("LIST") IN
            /\ Cardinality(new) <= 1
            /\ (new # {} /\ phase = "running")
                 => \E t \in ListInFlight :
                        /\ t.pc = "addNext"
                        /\ \E u \in inflight' :
                              u.req = t.req /\ u.pc = "success" /\ u.lAdded = 1]_vars

C28_Witness ==
    /\ Pending("LIST") # {}
    /\ \E t \in ListInFlight : t.pc = "success" /\ t.lAdded = 1 /\ t.req.retryCount > 0
    /\ ListItems = 2

(* C29: the delay of the governor stays between MIN_BACKOFF_TIME and       *)
(* MAX_BACKOFF_TIME, and it is MIN_BACKOFF_TIME exactly when no rate-limit *)
(* error is counted.                                                       *)
C29_BackoffBounds ==
    /\ MIN_BACKOFF_TIME <= lastBackoffTime
    /\ lastBackoffTime <= MAX_BACKOFF_TIME
    /\ consecutiveRateLimitErrors = 0 <=> lastBackoffTime = MIN_BACKOFF_TIME

C29_Witness ==
    /\ lastBackoffTime = MAX_BACKOFF_TIME
    /\ consecutiveRateLimitErrors = MaxBackoffs
    /\ waits[Len(waits)] = MAX_BACKOFF_TIME
    /\ waits[Len(waits) - 1] = MAX_BACKOFF_TIME

(* A checkpoint has been saved. *)
Saved == metadata # NoMetadata

(* C30: in every saved checkpoint and in the final metadata detailsCollected *)
(* is at most adsCollected, and no step lowers urlsFound, detailsCollected *)
(* or either counter of the saved metadata.                                *)
C30_CountersOrdered ==
    [][/\ Saved' => metadata'.detailsCollected <= metadata'.adsCollected
       /\ urlsFound' >= urlsFound
       /\ detailsCollected' >= detailsCollected
       /\ Saved => /\ metadata'.adsCollected >= metadata.adsCollected
                   /\ metadata'.detailsCollected >= metadata.detailsCollected]_vars

=============================================================================
